---- MODULE Spec2Model ----
(***************************************************************************)
(* A model of scrape_pubmed.py: the Scraper class (load_data,              *)
(* get_html_content, scrape_data, scrape_all, save_results, print_results) *)
(* and main, run on one asyncio event loop.                                *)
(*                                                                         *)
(* Values are tagged records so that any two of them can be compared:      *)
(*   None      Python's None                                               *)
(*   NA        pandas' pd.NA                                               *)
(*   Str(s)    a str, s the sequence of its characters                     *)
(*   Dict(f)   a dict, f the function from its keys to its values          *)
(*   Html(d)   a response body, d the text of the nodes each selector      *)
(*             matches in it, in document order                            *)
(***************************************************************************)
EXTENDS Integers, Sequences, FiniteSets, TLC

\* Bounds of the model.
MaxUrls == 3
MaxRequests == 2

None == [kind |-> "None"]
NA == [kind |-> "NA"]
Str(s) == [kind |-> "str", chars |-> s]
Dict(f) == [kind |-> "dict", items |-> f]
Html(d) == [kind |-> "html", nodes |-> d]

\* The keys of `elements`, in the order the dict literal lists them.
Fields ==
  << "title", "publication_type", "journal", "coi", "grants", "authors",
     "abstracts", "pmid", "pmcid", "doi", "citation", "erratum" >>

FieldSet == {Fields[k] : k \in 1..Len(Fields)}

\* The URLs an input file may hold.
URLS == { <<"a">>, <<"b">> }

\* The header lines an input file may have.
Headers == { <<"url">>, <<"link">> }

\* Characters str.strip() removes.
Whitespace == {" ", "\n", "\t"}

\* Response bodies the server may send. A body is modelled by what
\* soup.select finds in it for each selector: the texts of the matched nodes.
NoMatch == [f \in FieldSet |-> <<>>]

EmptyDocument == Html(NoMatch)

ArticleDocument ==
  Html([NoMatch EXCEPT !["title"] = << <<" ", "T", " ">> >>,
                       !["authors"] = << <<"A", " ">>, <<"\n", "B">> >>,
                       !["doi"] = << <<" ">> >>,
                       !["journal"] = << <<"J", " ", "K">> >>,
                       !["grants"] = << <<>>, <<"G">> >>,
                       !["abstracts"] =
                          << <<"\t", "x", "\n">>, <<" ">>, <<"y", "\t">> >>])

Documents == {EmptyDocument, ArticleDocument}

RECURSIVE LStrip(_)
LStrip(s) ==
  IF s # <<>> /\ Head(s) \in Whitespace THEN LStrip(Tail(s)) ELSE s

RECURSIVE RStrip(_)
RStrip(s) ==
  IF s # <<>> /\ s[Len(s)] \in Whitespace
    THEN RStrip(SubSeq(s, 1, Len(s) - 1))
    ELSE s

\* A strip that removes the leading whitespace only (lstrip).
StripLeft(s) == LStrip(s)

\* e.text.strip()
Strip(s) == RStrip(LStrip(s))

\* " ".join(e.text.strip() for e in element)
RECURSIVE Join(_)
Join(element) ==
  IF element = <<>> THEN <<>>
  ELSE IF Len(element) = 1 THEN Strip(Head(element))
  ELSE Strip(Head(element)) \o <<" ">> \o Join(Tail(element))

\* A loop that stores a key only when its selector matches.
ExtractMatchedOnly(html_content) ==
  Dict([f \in {g \in FieldSet : html_content.nodes[g] # <<>>} |->
          Str(Join(html_content.nodes[f]))])

\* The loop that fills `texts` from the parsed body: one key per selector,
\* the joined text when the selector matches and pd.NA when it does not.
Extract(html_content) ==
  Dict([f \in FieldSet |->
          IF html_content.nodes[f] # <<>>
            THEN Str(Join(html_content.nodes[f]))
            ELSE NA])

(***************************************************************************)
(* pandas frames: the column labels in order and one function from label   *)
(* to cell per row.  The integer label 0 is written "0".                   *)
(***************************************************************************)
Frame(columns, rows) == [kind |-> "frame", columns |-> columns, rows |-> rows]

ColumnSet(frame) == {frame.columns[k] : k \in 1..Len(frame.columns)}

\* pd.read_csv of an input file of one column: a frame with the file's
\* header as its column and one row per line.
ReadCsv(f) ==
  Frame(f.header,
        [r \in 1..Len(f.rows) |->
           [c \in {f.header[k] : k \in 1..Len(f.header)} |-> Str(f.rows[r])]])

\* self.df[["url"]]: the frame reduced to the column url. The caller checks
\* that the column exists (a KeyError otherwise).
SelectUrl(frame) ==
  Frame(<<"url">>,
        [r \in 1..Len(frame.rows) |-> [c \in {"url"} |-> frame.rows[r]["url"]]])

\* Whether pd.DataFrame(results) raises: the first element is a dict, so
\* the list is read as a list of dicts and x.keys() is called on every
\* element, and some later element is None (AttributeError).
DataFrameRaises(results) ==
  /\ results # <<>>
  /\ results[1].kind = "dict"
  /\ \E k \in 1..Len(results) : results[k].kind # "dict"

\* pd.DataFrame(results), when it does not raise.
\*   []                       no column, no row
\*   [dict, dict, ...]        the dicts' keys as columns, one row per dict
\*   [None, ...]              the first element is not list-like, so the list
\*                            is one column labelled 0 holding the elements
DataFrame(results) ==
  IF results = <<>> THEN Frame(<<>>, <<>>)
  ELSE IF results[1].kind = "dict"
    THEN Frame(Fields, [r \in 1..Len(results) |-> results[r].items])
    ELSE Frame(<<"0">>, [r \in 1..Len(results) |-> [c \in {"0"} |-> results[r]]])

\* pd.concat([left, right], axis=1) of two frames with a default index: the
\* rows are the union of the two indexes, a cell with no value is NaN.
Cell(frame, r, c) == IF r <= Len(frame.rows) THEN frame.rows[r][c] ELSE NA

Max(a, b) == IF a >= b THEN a ELSE b

Concat(left, right) ==
  Frame(left.columns \o right.columns,
        [r \in 1..Max(Len(left.rows), Len(right.rows)) |->
           [c \in ColumnSet(left) \cup ColumnSet(right) |->
              IF c \in ColumnSet(left) THEN Cell(left, r, c)
                                       ELSE Cell(right, r, c)]])

\* DataFrame.to_csv(index=False): the header line, then one line per row.
\* A missing value (NA, None) is written as the empty field, a str as itself
\* and any other object as its str().
CsvField(v) ==
  IF v.kind \in {"NA", "None"} THEN Str(<<>>)
  ELSE IF v.kind = "str" THEN v
  ELSE [kind |-> "repr", of |-> v]

ToCsv(frame) ==
  [header |-> frame.columns,
   rows |-> [r \in 1..Len(frame.rows) |->
               [k \in 1..Len(frame.columns) |->
                  CsvField(frame.rows[r][frame.columns[k]])]]]

(***************************************************************************)
(* The state: the input file and the command line's max_requests, the      *)
(* Scraper's fields, main's position, the per-URL tasks and gather's        *)
(* bookkeeping, what was printed and the output file.                      *)
(***************************************************************************)
VARIABLES
  file,          \* the input CSV: [header, rows]
  max_requests,  \* --max_requests
  mainpc,        \* where main is
  error,         \* the exception that left main, "none" while there is none
  df,            \* self.df
  sem_value,     \* self.semaphore._value
  sem_waiters,   \* self.semaphore._waiters: the tasks queued in acquire()
  pc,            \* per task of scrape_data: where it is
  html,          \* per task: html_content
  ret,           \* per task: what scrape_data returned
  acquired,      \* per task: how many times acquire() returned to it
  released,      \* per task: how many times it called release()
  fault,         \* per task: what ended its request early: "none",
                 \* "timeout" (asyncio.TimeoutError), "error" (any other)
  finished,      \* gather: the tasks whose done callback ran, in that order
  outer,         \* gather's outer future: "pending", "result", "exception"
  stdout,        \* the lines printed
  output         \* the output CSV, None while it is not written

vars ==
  << file, max_requests, mainpc, error, df, sem_value, sem_waiters, pc, html,
     ret, acquired, released, fault, finished, outer, stdout, output >>

RECURSIVE SeqsUpTo(_, _)
SeqsUpTo(S, n) ==
  IF n = 0 THEN { <<>> }
  ELSE LET shorter == SeqsUpTo(S, n - 1)
       IN shorter \cup {Append(q, x) : q \in {t \in shorter : Len(t) = n - 1}, x \in S}

\* The input files. No step depends on what a URL is, only on where it
\* repeats: the URL of the first row is named "a".
Files ==
  [header : Headers,
   rows : {q \in SeqsUpTo(URLS, MaxUrls) : q # <<>> => q[1] = <<"a">>}]

Tasks == DOMAIN pc

\* The tasks that own a permit: woken by release() or inside the request.
Holders == {i \in Tasks : pc[i] \in {"WOKEN", "REQUEST", "DELAY", "READING"}}

\* Scraper.__init__ has run: df is None and the semaphore holds max_requests
\* permits (asyncio.Semaphore refuses a negative value).
Init ==
  /\ file \in Files
  /\ max_requests \in 0..MaxRequests
  /\ mainpc = "constructed"
  /\ error = "none"
  /\ df = None
  /\ sem_value = max_requests
  /\ sem_waiters = <<>>
  /\ pc = <<>>
  /\ html = <<>>
  /\ ret = <<>>
  /\ acquired = <<>>
  /\ released = <<>>
  /\ fault = <<>>
  /\ finished = <<>>
  /\ outer = "pending"
  /\ stdout = <<>>
  /\ output = None

\* A load_data that keeps the file's first column whatever its name.
load_data_first_column ==
  /\ mainpc = "constructed"
  /\ df' = Frame(<<"url">>,
                 [r \in 1..Len(file.rows) |-> [c \in {"url"} |-> Str(file.rows[r])]])
  /\ mainpc' = "loaded"
  /\ UNCHANGED << file, max_requests, error, sem_value, sem_waiters, pc, html,
                  ret, acquired, released, finished, outer, stdout, output,
                  fault >>

\* load_data: read the file, keep the column url. Line 81 assigns self.df
\* before line 82 raises KeyError when there is no such column.
load_data ==
  /\ mainpc = "constructed"
  /\ IF "url" \in ColumnSet(ReadCsv(file))
       THEN /\ df' = SelectUrl(ReadCsv(file))
            /\ mainpc' = "loaded"
            /\ error' = error
       ELSE /\ df' = ReadCsv(file)
            /\ mainpc' = "aborted"
            /\ error' = "KeyError"
  /\ UNCHANGED << file, max_requests, sem_value, sem_waiters, pc, html, ret,
                  acquired, released, finished, outer, stdout, output, fault >>

\* self.df["url"]
Urls == [r \in 1..Len(df.rows) |-> df.rows[r]["url"].chars]

\* A scrape_all that launches one task per distinct URL
\* (self.df["url"].unique()).
scrape_all_start_unique ==
  /\ mainpc = "loaded"
  /\ mainpc' = "gathering"
  /\ LET n == Cardinality({Urls[r] : r \in 1..Len(Urls)})
     IN /\ pc' = [i \in 1..n |-> "PENDING"]
        /\ html' = [i \in 1..n |-> None]
        /\ ret' = [i \in 1..n |-> None]
        /\ acquired' = [i \in 1..n |-> 0]
        /\ released' = [i \in 1..n |-> 0]
        /\ fault' = [i \in 1..n |-> "none"]
        /\ outer' = IF n = 0 THEN "result" ELSE "pending"
  /\ UNCHANGED << file, max_requests, error, df, sem_value, sem_waiters,
                  finished, stdout, output >>

\* scrape_all up to its await: one scrape_data coroutine per URL, all handed
\* to gather at once. gather() of nothing is a future that already holds [].
scrape_all_start ==
  /\ mainpc = "loaded"
  /\ mainpc' = "gathering"
  /\ pc' = [i \in 1..Len(Urls) |-> "PENDING"]
  /\ html' = [i \in 1..Len(Urls) |-> None]
  /\ ret' = [i \in 1..Len(Urls) |-> None]
  /\ acquired' = [i \in 1..Len(Urls) |-> 0]
  /\ released' = [i \in 1..Len(Urls) |-> 0]
  /\ fault' = [i \in 1..Len(Urls) |-> "none"]
  /\ outer' = IF Len(Urls) = 0 THEN "result" ELSE "pending"
  /\ UNCHANGED << file, max_requests, error, df, sem_value, sem_waiters,
                  finished, stdout, output >>

\* The loop runs the tasks while main waits in gather.
LoopRuns == mainpc = "gathering"

\* The loop runs what is ready in the order it became ready: gather made
\* the tasks ready in the order of its arguments, so task i takes its first
\* step after the tasks before it.
Turn(i) == \A j \in 1..(i - 1) : pc[j] # "PENDING"

\* A staggered launch: the loop polls the network between the first steps
\* of two tasks.
StaggeredStart == TRUE

\* The loop polls the network, the timers and a waiting main only after it
\* ran what was ready: every task has taken its first step by then.
AllStarted == \A j \in Tasks : pc[j] # "PENDING"

\* Task i is in the step that began it: it reached the GET without waiting
\* and no task after it has begun. What session.get raises before it first
\* waits is raised in this step.
InFirstStep(i) ==
  /\ pc[i] = "REQUEST"
  /\ \A j \in (i + 1)..Len(pc) : pc[j] = "PENDING"

\* Semaphore.locked()
Locked == sem_value = 0 \/ sem_waiters # <<>>

\* The first queued task whose future is not done, 0 when there is none.
NextWaiter(waiters, at) ==
  LET idx == {k \in 1..Len(waiters) : at[waiters[k]] = "PERMIT_WAIT"}
  IN IF idx = {} THEN 0
     ELSE waiters[CHOOSE k \in idx : \A m \in idx : k <= m]

\* Semaphore._wake_up_next after the counter became `value`, with the tasks
\* at `at`: the first waiting task takes the permit and its future is set.
\* Gives the counter and the tasks' positions.
WakeUpNext(value, waiters, at) ==
  IF NextWaiter(waiters, at) = 0
    THEN [value |-> value, at |-> at]
    ELSE [value |-> value - 1,
          at |-> [at EXCEPT ![NextWaiter(waiters, at)] = "WOKEN"]]

\* Semaphore.release() by a task that moves to `to`.
Release(i, to) ==
  LET woke == WakeUpNext(sem_value + 1, sem_waiters, [pc EXCEPT ![i] = to])
  IN /\ sem_value' = woke.value
     /\ pc' = woke.at
     /\ released' = [released EXCEPT ![i] = @ + 1]

\* A get_html_content that issues the GET without the semaphore.
acquire_enter_ungated(i) ==
  /\ LoopRuns
  /\ pc[i] = "PENDING"
  /\ Turn(i)
  /\ sem_value' = sem_value - 1
  /\ acquired' = [acquired EXCEPT ![i] = @ + 1]
  /\ pc' = [pc EXCEPT ![i] = "REQUEST"]
  /\ UNCHANGED << file, max_requests, mainpc, error, df, sem_waiters, html,
                  ret, released, finished, outer, stdout, output, fault >>

\* get_html_content entering `async with self.semaphore`: acquire() takes
\* a permit at once when the semaphore is not locked, and the session's GET
\* is issued; otherwise the task queues behind the other waiters.
acquire_enter(i) ==
  /\ LoopRuns
  /\ pc[i] = "PENDING"
  /\ Turn(i)
  /\ IF ~Locked
       THEN /\ sem_value' = sem_value - 1
            /\ acquired' = [acquired EXCEPT ![i] = @ + 1]
            /\ pc' = [pc EXCEPT ![i] = "REQUEST"]
            /\ UNCHANGED sem_waiters
       ELSE /\ sem_waiters' = Append(sem_waiters, i)
            /\ pc' = [pc EXCEPT ![i] = "PERMIT_WAIT"]
            /\ UNCHANGED << sem_value, acquired >>
  /\ UNCHANGED << file, max_requests, mainpc, error, df, html, ret, released,
                  finished, outer, stdout, output, fault >>

\* Remove(waiters, i): deque.remove
Remove(waiters, i) == SelectSeq(waiters, LAMBDA j : j # i)

\* A woken task resumes in acquire(): it leaves the queue, passes a spare
\* permit on to the next waiter, and acquire() returns; the GET is issued.
acquire_resume(i) ==
  /\ LoopRuns
  /\ pc[i] = "WOKEN"
  /\ sem_waiters' = Remove(sem_waiters, i)
  /\ LET at == [pc EXCEPT ![i] = "REQUEST"]
         woke == IF sem_value > 0
                   THEN WakeUpNext(sem_value, Remove(sem_waiters, i), at)
                   ELSE [value |-> sem_value, at |-> at]
     IN /\ sem_value' = woke.value
        /\ pc' = woke.at
  /\ acquired' = [acquired EXCEPT ![i] = @ + 1]
  /\ UNCHANGED << file, max_requests, mainpc, error, df, html, ret, released,
                  finished, outer, stdout, output, fault >>

\* A get_html_content whose `async with self.semaphore` ends with the GET,
\* before the sleep.
response_arrives_releasing(i) ==
  /\ LoopRuns
  /\ AllStarted
  /\ pc[i] = "REQUEST"
  /\ Release(i, "DELAY")
  /\ UNCHANGED << file, max_requests, mainpc, error, df, sem_waiters, html,
                  ret, acquired, finished, outer, stdout, output, fault >>

\* session.get(url) answers: the task goes on to asyncio.sleep(self.delay),
\* still inside `async with self.semaphore`.
response_arrives(i) ==
  /\ LoopRuns
  /\ AllStarted
  /\ pc[i] = "REQUEST"
  /\ pc' = [pc EXCEPT ![i] = "DELAY"]
  /\ UNCHANGED << file, max_requests, mainpc, error, df, sem_value,
                  sem_waiters, html, ret, acquired, released, finished, outer,
                  stdout, output, fault >>

\* The sleep ends: the task goes on to response.text().
delay_elapses(i) ==
  /\ LoopRuns
  /\ AllStarted
  /\ pc[i] = "DELAY"
  /\ pc' = [pc EXCEPT ![i] = "READING"]
  /\ UNCHANGED << file, max_requests, mainpc, error, df, sem_value,
                  sem_waiters, html, ret, acquired, released, finished, outer,
                  stdout, output, fault >>

\* A get_html_content that parses inside `async with self.semaphore`: the
\* body is read and the permit is kept while the fields are extracted.
body_read_keeps_permit(i, body) ==
  /\ LoopRuns
  /\ AllStarted
  /\ pc[i] = "READING"
  /\ html' = [html EXCEPT ![i] = body]
  /\ pc' = [pc EXCEPT ![i] = "EXTRACTING"]
  /\ UNCHANGED << file, max_requests, mainpc, error, df, sem_value,
                  sem_waiters, ret, acquired, released, finished, outer,
                  stdout, output, fault >>

\* response.text() returns the body: the with blocks are left, the permit
\* is released and get_html_content returns the text.
body_read(i, body) ==
  /\ LoopRuns
  /\ AllStarted
  /\ pc[i] = "READING"
  /\ html' = [html EXCEPT ![i] = body]
  /\ Release(i, "EXTRACTING")
  /\ UNCHANGED << file, max_requests, mainpc, error, df, sem_waiters, ret,
                  acquired, finished, outer, stdout, output, fault >>

\* A get_html_content without the except clause: the timeout ends the task.
fetch_timeout_uncaught(i) ==
  /\ LoopRuns
  /\ AllStarted
  /\ pc[i] \in {"REQUEST", "DELAY", "READING"}
  /\ fault' = [fault EXCEPT ![i] = "timeout"]
  /\ Release(i, "RAISED")
  /\ finished' = Append(finished, i)
  /\ outer' = IF outer # "pending" THEN outer ELSE "exception"
  /\ UNCHANGED << file, max_requests, mainpc, error, df, sem_waiters, html,
                  ret, acquired, stdout, output >>

\* A get_html_content that acquires and releases by hand and forgets the
\* release in the except clause.
fetch_timeout_keeps_permit(i) ==
  /\ LoopRuns
  /\ AllStarted
  /\ pc[i] \in {"REQUEST", "DELAY", "READING"}
  /\ stdout' = Append(stdout, [line |-> "TimeoutError", url |-> Urls[i]])
  /\ html' = [html EXCEPT ![i] = None]
  /\ fault' = [fault EXCEPT ![i] = "timeout"]
  /\ pc' = [pc EXCEPT ![i] = "FAILED"]
  /\ UNCHANGED << file, max_requests, mainpc, error, df, sem_value,
                  sem_waiters, ret, acquired, released, finished, outer,
                  output >>

\* A get_html_content that tries again after a timeout: the permit is
\* released and the task starts over.
fetch_timeout_retry(i) ==
  /\ LoopRuns
  /\ AllStarted
  /\ pc[i] \in {"REQUEST", "DELAY", "READING"}
  /\ stdout' = Append(stdout, [line |-> "TimeoutError", url |-> Urls[i]])
  /\ html' = [html EXCEPT ![i] = None]
  /\ fault' = [fault EXCEPT ![i] = "timeout"]
  /\ Release(i, "PENDING")
  /\ UNCHANGED << file, max_requests, mainpc, error, df, sem_waiters, ret,
                  acquired, finished, outer, output >>

\* asyncio.TimeoutError anywhere inside the try: the except clause prints
\* the URL and returns None; the permit is released on the way out.
fetch_timeout(i) ==
  /\ LoopRuns
  /\ AllStarted
  /\ pc[i] \in {"REQUEST", "DELAY", "READING"}
  /\ stdout' = Append(stdout, [line |-> "TimeoutError", url |-> Urls[i]])
  /\ html' = [html EXCEPT ![i] = None]
  /\ Release(i, "FAILED")
  /\ fault' = [fault EXCEPT ![i] = "timeout"]
  /\ UNCHANGED << file, max_requests, mainpc, error, df, sem_waiters, ret,
                  acquired, finished, outer, output >>

\* The done callback of gather(..., return_exceptions=True): an exception
\* is a result like any other.
GatherDoneReturnExceptions(i, failed) ==
  /\ finished' = Append(finished, i)
  /\ outer' = IF outer # "pending" THEN outer
              ELSE IF Len(finished) + 1 = Len(pc) THEN "result"
              ELSE "pending"

\* The done callback of a wait for the first task only.
GatherDoneFirstCompleted(i, failed) ==
  /\ finished' = Append(finished, i)
  /\ outer' = IF outer # "pending" THEN outer
              ELSE IF failed THEN "exception"
              ELSE "result"

\* gather's done callback for task i, `failed` when the task ended in an
\* exception: the first exception is set on the outer future at once; the
\* results are set when the last task finished.
GatherDone(i, failed) ==
  /\ finished' = Append(finished, i)
  /\ outer' = IF outer # "pending" THEN outer
              ELSE IF failed THEN "exception"
              ELSE IF Len(finished) + 1 = Len(pc) THEN "result"
              ELSE "pending"

\* A get_html_content that acquires and releases by hand, with no finally:
\* an exception it does not catch leaves with the permit.
fetch_error_keeps_permit(i) ==
  /\ LoopRuns
  /\ AllStarted \/ InFirstStep(i)
  /\ pc[i] \in {"REQUEST", "READING"}
  /\ fault' = [fault EXCEPT ![i] = "error"]
  /\ pc' = [pc EXCEPT ![i] = "RAISED"]
  /\ GatherDone(i, TRUE)
  /\ UNCHANGED << file, max_requests, mainpc, error, df, sem_value,
                  sem_waiters, html, ret, acquired, released, stdout, output >>

\* Any other exception of the request (aiohttp.ClientError): no except clause
\* matches; the permit is released on the way out and the exception ends
\* get_html_content, scrape_data and the task. session.get may raise before
\* it first waits (a URL it cannot parse), in the task's first step.
fetch_error(i) ==
  /\ LoopRuns
  /\ AllStarted \/ InFirstStep(i)
  /\ pc[i] \in {"REQUEST", "READING"}
  /\ Release(i, "RAISED")
  /\ GatherDone(i, TRUE)
  /\ fault' = [fault EXCEPT ![i] = "error"]
  /\ UNCHANGED << file, max_requests, mainpc, error, df, sem_waiters, html,
                  ret, acquired, stdout, output >>

\* scrape_data after a None: it returns None.
scrape_data_none(i) ==
  /\ LoopRuns
  /\ pc[i] = "FAILED"
  /\ pc' = [pc EXCEPT ![i] = "DONE"]
  /\ ret' = [ret EXCEPT ![i] = None]
  /\ GatherDone(i, FALSE)
  /\ UNCHANGED << file, max_requests, mainpc, error, df, sem_value,
                  sem_waiters, html, acquired, released, stdout, output, fault >>

\* A scrape_data that fills one dict shared by all the tasks (an attribute
\* of the Scraper): every dict returned so far shows the last extraction.
scrape_data_texts_shared(i) ==
  /\ LoopRuns
  /\ pc[i] = "EXTRACTING"
  /\ pc' = [pc EXCEPT ![i] = "DONE"]
  /\ ret' = [j \in DOMAIN ret |->
               IF j = i \/ ret[j].kind = "dict" THEN Extract(html[i])
                                                ELSE ret[j]]
  /\ GatherDone(i, FALSE)
  /\ UNCHANGED << file, max_requests, mainpc, error, df, sem_value,
                  sem_waiters, html, acquired, released, stdout, output,
                  fault >>

\* scrape_data after a body: it parses it and returns `texts`.
scrape_data_texts(i) ==
  /\ LoopRuns
  /\ pc[i] = "EXTRACTING"
  /\ pc' = [pc EXCEPT ![i] = "DONE"]
  /\ ret' = [ret EXCEPT ![i] = Extract(html[i])]
  /\ GatherDone(i, FALSE)
  /\ UNCHANGED << file, max_requests, mainpc, error, df, sem_value,
                  sem_waiters, html, acquired, released, stdout, output, fault >>

\* A gather that collects the results as the tasks finish.
GatherResultsAsCompleted ==
  [k \in 1..Len(pc) |-> IF k <= Len(finished) THEN ret[finished[k]] ELSE None]

\* What `await asyncio.gather(*tasks)` gives: the tasks' results in the
\* order of the arguments.
GatherResults == [i \in 1..Len(pc) |-> ret[i]]

\* scrape_all after its await, when every task returned: the results become
\* a frame that is put beside self.df. pd.DataFrame may raise.
scrape_all_finish ==
  /\ mainpc = "gathering"
  /\ outer = "result"
  /\ IF DataFrameRaises(GatherResults)
       THEN /\ mainpc' = "aborted"
            /\ error' = "AttributeError"
            /\ df' = df
       ELSE /\ mainpc' = "assembled"
            /\ error' = error
            /\ df' = Concat(df, DataFrame(GatherResults))
  /\ UNCHANGED << file, max_requests, sem_value, sem_waiters, pc, html, ret,
                  acquired, released, finished, outer, stdout, output, fault >>

\* scrape_all after its await, when a task raised: the exception leaves
\* scrape_all and main, and run_until_complete stops the loop.
scrape_all_raise ==
  /\ mainpc = "gathering"
  /\ outer = "exception"
  /\ AllStarted
  /\ mainpc' = "aborted"
  /\ error' = "ClientError"
  /\ UNCHANGED << file, max_requests, df, sem_value, sem_waiters, pc, html,
                  ret, acquired, released, finished, outer, stdout, output, fault >>

\* save_results: self.df.to_csv(output_file, index=False) and a line.
save_results ==
  /\ mainpc = "assembled"
  /\ mainpc' = "saved"
  /\ output' = ToCsv(df)
  /\ stdout' = Append(stdout, [line |-> "Results saved"])
  /\ UNCHANGED << file, max_requests, error, df, sem_value, sem_waiters, pc,
                  html, ret, acquired, released, finished, outer, fault >>

\* print_results: the elapsed time with len(self.df), and the preview.
print_results ==
  /\ mainpc = "saved"
  /\ mainpc' = "done"
  /\ stdout' = Append(stdout, [line |-> "It took", articles |-> Len(df.rows)])
  /\ UNCHANGED << file, max_requests, error, df, sem_value, sem_waiters, pc,
                  html, ret, acquired, released, finished, outer, output, fault >>

Next ==
  \/ load_data
  \/ scrape_all_start
  \/ \E i \in Tasks : acquire_enter(i)
  \/ \E i \in Tasks : acquire_resume(i)
  \/ \E i \in Tasks : response_arrives(i)
  \/ \E i \in Tasks : delay_elapses(i)
  \/ \E i \in Tasks, body \in Documents : body_read(i, body)
  \/ \E i \in Tasks : fetch_timeout(i)
  \/ \E i \in Tasks : fetch_error(i)
  \/ \E i \in Tasks : scrape_data_none(i)
  \/ \E i \in Tasks : scrape_data_texts(i)
  \/ scrape_all_finish
  \/ scrape_all_raise
  \/ save_results
  \/ print_results

\* The run in which every request answers or times out: no other exception.
LiveNext ==
  \/ load_data
  \/ scrape_all_start
  \/ \E i \in Tasks : acquire_enter(i)
  \/ \E i \in Tasks : acquire_resume(i)
  \/ \E i \in Tasks : response_arrives(i)
  \/ \E i \in Tasks : delay_elapses(i)
  \/ \E i \in Tasks, body \in Documents : body_read(i, body)
  \/ \E i \in Tasks : fetch_timeout(i)
  \/ \E i \in Tasks : scrape_data_none(i)
  \/ \E i \in Tasks : scrape_data_texts(i)
  \/ scrape_all_finish
  \/ save_results
  \/ print_results

\* A step of task i in such a run.
TaskStep(i) ==
  /\ i \in Tasks
  /\ \/ acquire_enter(i)
     \/ acquire_resume(i)
     \/ response_arrives(i)
     \/ delay_elapses(i)
     \/ \E body \in Documents : body_read(i, body)
     \/ fetch_timeout(i)
     \/ scrape_data_none(i)
     \/ scrape_data_texts(i)

\* A step of main.
MainStep ==
  \/ load_data
  \/ scrape_all_start
  \/ scrape_all_finish
  \/ save_results
  \/ print_results

\* The event loop runs every task that is ready, and every request
\* answers or times out.
Fairness ==
  /\ WF_vars(MainStep)
  /\ \A i \in 1..MaxUrls : WF_vars(TaskStep(i))

\* The runs checked for progress: as Init, with one URL for every row. What
\* a task does never depends on its URL, only on what the network answers.
FairInit ==
  /\ Init
  /\ file.rows \in SeqsUpTo({<<"a">>}, MaxUrls)

FairSpec == FairInit /\ [][LiveNext]_vars /\ Fairness

Spec == Init /\ [][Next]_vars

(***************************************************************************)
(* Properties                                                              *)
(***************************************************************************)

\* scrape_all returned normally: self.df is the assembled table.
Assembled == mainpc \in {"assembled", "saved", "done"}

\* What task i produced: None after a failed fetch, the extraction of the
\* body it fetched otherwise.
Produced(i) == IF html[i] = None THEN None ELSE Extract(html[i])

\* C1: order preservation. Once scrape_all has assembled the table, it has
\* exactly one row per input URL, row i's url is input URL i, and what row i
\* holds beside the url is what the task launched for input URL i produced,
\* whatever the order in which the tasks finished.
C1_OrderPreservation ==
  Assembled =>
    /\ Len(df.rows) = Len(file.rows)
    /\ \A i \in 1..Len(file.rows) :
         /\ df.rows[i]["url"] = Str(file.rows[i])
         /\ ret[i] = Produced(i)
         /\ \A c \in ColumnSet(df) \ {"url"} :
              df.rows[i][c] = IF c = "0" THEN ret[i] ELSE ret[i].items[c]

\* C1 witness: a table assembled from two tasks that finished in the reverse
\* of the input order, with different URLs and different results.
C1_Witness ==
  /\ mainpc = "assembled"
  /\ Len(file.rows) >= 2
  /\ file.rows[1] # file.rows[2]
  /\ ret[1] # ret[2]
  /\ finished[1] = 2
  /\ "title" \in ColumnSet(df)

\* C2: concurrency bound. At no time do more than max_requests tasks own a
\* permit.
C2_ConcurrencyBound == Cardinality(Holders) <= max_requests

\* C2 witness: every permit is owned while another task waits for one.
C2_Witness ==
  /\ max_requests >= 1
  /\ Cardinality(Holders) = max_requests
  /\ \E i \in Tasks : pc[i] = "PERMIT_WAIT"

\* The row the specification describes for input URL i: the URL, then the
\* twelve fields, absent when the fetch timed out.
ExpectedRow(i) ==
  [c \in {"url"} \cup FieldSet |->
     IF c = "url" THEN Str(file.rows[i])
     ELSE IF fault[i] = "timeout" THEN NA
     ELSE Extract(html[i]).items[c]]

\* C3 (as claimed): failure isolation on the timeout path. When every task
\* has finished and some fetch timed out, the pipeline completes with a table
\* of one row per URL, the rows of the timed-out URLs all absent and the
\* other rows as they would be without the timeout.
C3_TimeoutIsolation ==
  ( /\ outer = "result"
    /\ mainpc # "gathering"
    /\ \E i \in Tasks : fault[i] = "timeout" )
  => /\ Assembled
     /\ Len(df.rows) = Len(file.rows)
     /\ \A i \in 1..Len(file.rows) : df.rows[i] = ExpectedRow(i)

\* C4 (as claimed): output schema. The table that is saved has exactly the
\* thirteen columns url, title, ..., erratum and one row per input URL.
C4_OutputSchema ==
  output # None =>
    /\ output.header = <<"url">> \o Fields
    /\ Len(output.rows) = Len(file.rows)

\* scrape_all has returned control to main, normally or by raising.
ScrapeAllReturned ==
  \/ Assembled
  \/ mainpc = "aborted" /\ error \in {"ClientError", "AttributeError"}

\* C5 (as claimed): joint await. When scrape_all has returned, normally or
\* by raising, no task is still pending, waiting for a permit, fetching or
\* extracting.
C5_JointAwaitAlways ==
  ScrapeAllReturned => \A i \in Tasks : pc[i] \in {"DONE", "RAISED"}

\* C5 (amended): when scrape_all has returned normally, or has raised after
\* its await, every task is DONE; when it raised out of its await, the task
\* that failed has ended and nothing is said of the others.
C5_JointAwait ==
  /\ Assembled \/ error = "AttributeError" => \A i \in Tasks : pc[i] = "DONE"
  /\ error = "ClientError" => \E i \in Tasks : pc[i] = "RAISED"

\* C5 witness: scrape_all returned normally from three tasks.
C5_Witness ==
  /\ mainpc = "assembled"
  /\ Len(pc) = 3
  /\ \E i \in Tasks : fault[i] = "none"

\* C6: permit window. A task inside the request owns the one permit it
\* acquired and has not released it; a task past the fetch, on whichever
\* path it left it, has released that permit exactly once; and a release
\* happens only out of the request, after the sleep and the read of the body
\* when the request succeeded.
C6_PermitWindow ==
  /\ [](\A i \in Tasks :
          /\ pc[i] \in {"PENDING", "PERMIT_WAIT", "WOKEN"} =>
               acquired[i] = 0 /\ released[i] = 0
          /\ pc[i] \in {"REQUEST", "DELAY", "READING"} =>
               acquired[i] = 1 /\ released[i] = 0
          /\ pc[i] \in {"EXTRACTING", "FAILED", "DONE", "RAISED"} =>
               acquired[i] = 1 /\ released[i] = 1)
  /\ [][\A i \in Tasks :
          released'[i] # released[i] =>
            /\ pc[i] \in {"REQUEST", "DELAY", "READING"}
            /\ fault'[i] = "none" => pc[i] = "READING"]_vars

\* C6 witness: three tasks that left the fetch on the three paths.
C6_Witness ==
  /\ \E i \in Tasks : pc[i] = "EXTRACTING" /\ released[i] = 1
  /\ \E i \in Tasks : pc[i] = "FAILED" /\ released[i] = 1
  /\ \E i \in Tasks : pc[i] = "RAISED" /\ released[i] = 1

C8_BatchFatal ==
  (\E i \in Tasks : fault[i] = "error") =>
    /\ \A i \in Tasks : fault[i] = "error" => pc[i] = "RAISED"
    /\ outer = "exception"
    /\ mainpc \in {"gathering", "aborted"}
    /\ mainpc = "aborted" => error = "ClientError"
    /\ df = SelectUrl(ReadCsv(file))
    /\ output = None

\* C8 witness: main left with the exception while another task had already
\* returned its texts and a third was still in its request.
C8_Witness ==
  /\ mainpc = "aborted"
  /\ error = "ClientError"
  /\ \E i \in Tasks : pc[i] = "DONE" /\ ret[i].kind = "dict"
  /\ \E i \in Tasks : pc[i] \in {"REQUEST", "DELAY", "READING"}

\* Every task scrape_all launched has ended with a result.
AllDone == \A i \in Tasks : pc[i] = "DONE"

\* C9 (as claimed): progress. In a fair run where every request answers or
\* times out, once scrape_all has launched the tasks they all end DONE
\* (none stays in PERMIT_WAIT), whatever value of max_requests the
\* semaphore accepted.
C9_ProgressAlways == (mainpc = "gathering") ~> AllDone

\* C9 (amended): progress when max_requests >= 1. In such a run, once
\* scrape_all has launched the tasks they all end DONE: every task that
\* waits for a permit comes to own one, since a task is DONE only after it
\* acquired one.
C9_Progress == (max_requests >= 1 /\ mainpc = "gathering") ~> AllDone

\* C9 witness: with one permit, several tasks, which had to wait for it, are
\* all DONE.
C9_Witness ==
  /\ max_requests = 1
  /\ Len(pc) >= 2
  /\ \A i \in Tasks : pc[i] = "DONE"

\* C10: missing input column. With no column url in the input, main is
\* before load_data or has left it with KeyError: there is no task, every
\* permit is free, no request was issued and no output file is written.
C10_MissingColumnFatal ==
  "url" \notin {file.header[k] : k \in 1..Len(file.header)} =>
    /\ mainpc \in {"constructed", "aborted"}
    /\ mainpc = "aborted" => error = "KeyError"
    /\ pc = <<>>
    /\ sem_value = max_requests /\ sem_waiters = <<>>
    /\ stdout = <<>>
    /\ output = None

\* C10 witness: load_data failed on a file that holds URLs under another
\* header.
C10_Witness ==
  /\ mainpc = "aborted"
  /\ error = "KeyError"
  /\ Len(file.rows) >= 1

\* C11: extraction completeness. What scrape_data returns for a fetched
\* body, the empty one included, is a dict with exactly the twelve keys, each
\* a str or the absent marker; for the body in which no selector matches
\* all twelve are absent, and the task ends DONE with that dict, not with
\* None and not by raising.
C11_ExtractionComplete ==
  \A i \in Tasks :
    /\ pc[i] = "DONE" /\ fault[i] = "none" =>
         /\ ret[i].kind = "dict"
         /\ DOMAIN ret[i].items = FieldSet
         /\ \A f \in FieldSet : ret[i].items[f].kind \in {"str", "NA"}
         /\ html[i] = EmptyDocument => \A f \in FieldSet : ret[i].items[f] = NA
    /\ html[i] # None => pc[i] \in {"EXTRACTING", "DONE"}

\* C11 witness: two tasks DONE, one on the body in which nothing matches,
\* one on a body with present and absent fields.
C11_Witness ==
  \E i, j \in Tasks :
    /\ pc[i] = "DONE" /\ html[i] = EmptyDocument /\ ret[i].kind = "dict"
    /\ pc[j] = "DONE" /\ html[j] = ArticleDocument
    /\ ret[j].items["title"].kind = "str"
    /\ ret[j].items["pmid"] = NA

\* t is x without its leading and trailing whitespace.
IsTrimOf(t, x) ==
  \E a \in 0..Len(x) :
    /\ a + Len(t) <= Len(x)
    /\ t = SubSeq(x, a + 1, a + Len(t))
    /\ \A k \in 1..a : x[k] \in Whitespace
    /\ \A k \in (a + Len(t) + 1)..Len(x) : x[k] \in Whitespace
    /\ t # <<>> => t[1] \notin Whitespace /\ t[Len(t)] \notin Whitespace

Trimmed(x) ==
  CHOOSE t \in {SubSeq(x, a, b) : a \in 1..(Len(x) + 1), b \in 0..Len(x)} :
    IsTrimOf(t, x)

\* The texts of the nodes of the documents, and each one trimmed.
NodeTexts ==
  UNION { UNION { {d.nodes[f][k] : k \in 1..Len(d.nodes[f])} : f \in FieldSet }
          : d \in Documents }

TrimmedOf == [x \in NodeTexts |-> Trimmed(x)]

\* Where the trimmed text of node k starts in the joined text, less one.
RECURSIVE Offset(_, _)
Offset(nodes, k) ==
  IF k = 1 THEN 0
  ELSE Offset(nodes, k - 1) + Len(TrimmedOf[nodes[k - 1]]) + 1

\* s is the trimmed texts of the nodes, in order, one space between two.
IsJoinedText(s, nodes) ==
  /\ Len(s) = Offset(nodes, Len(nodes)) + Len(TrimmedOf[nodes[Len(nodes)]])
  /\ \A k \in 1..Len(nodes) :
       /\ SubSeq(s, Offset(nodes, k) + 1,
                 Offset(nodes, k) + Len(TrimmedOf[nodes[k]])) = TrimmedOf[nodes[k]]
       /\ k > 1 => s[Offset(nodes, k)] = " "

\* C12: field value rule. In every dict scrape_data returned, a field whose
\* selector matched nodes holds a str, the trimmed texts of the nodes in
\* document order with one space between two (the empty str when they are
\* all blank), and a field whose selector matched nothing holds the absent
\* marker, which is no str.
C12_FieldValueRule ==
  \A i \in Tasks :
    ret[i].kind = "dict" =>
      \A f \in DOMAIN ret[i].items :
        IF html[i].nodes[f] = <<>>
          THEN ret[i].items[f] = NA
          ELSE /\ ret[i].items[f].kind = "str"
               /\ IsJoinedText(ret[i].items[f].chars, html[i].nodes[f])

\* C12 witness: a returned dict with a field of one node, one of two nodes,
\* one of three nodes with a blank one between, the empty str and an absent
\* field.
C12_Witness ==
  \E i \in Tasks :
    /\ ret[i].kind = "dict"
    /\ ret[i].items["title"] = Str(<<"T">>)
    /\ ret[i].items["authors"] = Str(<<"A", " ", "B">>)
    /\ ret[i].items["abstracts"] = Str(<<"x", " ", " ", "y">>)
    /\ ret[i].items["grants"] = Str(<<" ", "G">>)
    /\ ret[i].items["doi"] = Str(<<>>)
    /\ ret[i].items["doi"] # NA
    /\ ret[i].items["pmid"] = NA

\* The state of the per-URL state machine a task at p is in. A task whose
\* future was set by release() is still inside acquire(): PERMIT_WAIT.
\* RAISED, the end of a task by an exception, is no state of that machine.
StateOf(p) ==
  IF p \in {"PERMIT_WAIT", "WOKEN"} THEN "PERMIT_WAIT"
  ELSE IF p \in {"REQUEST", "DELAY", "READING"} THEN "FETCHING"
  ELSE p

\* The transitions PENDING -> PERMIT_WAIT -> FETCHING ->
\* {EXTRACTING -> DONE} | {FAILED -> DONE}. A task that finds a permit free
\* passes PERMIT_WAIT without waiting: PENDING -> FETCHING in one step.
Transitions ==
  { <<"PENDING", "PERMIT_WAIT">>, <<"PENDING", "FETCHING">>,
    <<"PERMIT_WAIT", "FETCHING">>,
    <<"FETCHING", "EXTRACTING">>, <<"EXTRACTING", "DONE">>,
    <<"FETCHING", "FAILED">>, <<"FAILED", "DONE">> }

\* C13 (as claimed): per-URL state machine. Every step of a task is one of
\* Transitions or leaves its state as it is; so no task leaves DONE and none
\* returns to PERMIT_WAIT or FETCHING.
C13_StateMachineOnly ==
  [][\A i \in Tasks :
       \/ StateOf(pc'[i]) = StateOf(pc[i])
       \/ <<StateOf(pc[i]), StateOf(pc'[i])>> \in Transitions]_vars

\* C13 (amended): every step of a task is one of Transitions, or ends the
\* task out of FETCHING by the exception of its request (RAISED), or leaves
\* its state as it is; no task leaves DONE or RAISED, none returns to
\* PERMIT_WAIT or FETCHING, and acquire() returns at most once to a task,
\* which issues its one request then.
C13_StateMachine ==
  /\ [][\A i \in Tasks :
          \/ StateOf(pc'[i]) = StateOf(pc[i])
          \/ <<StateOf(pc[i]), StateOf(pc'[i])>> \in
               Transitions \cup { <<"FETCHING", "RAISED">> }]_vars
  /\ [](\A i \in Tasks :
          /\ acquired[i] <= 1
          /\ acquired[i] = 1 <=> StateOf(pc[i]) \notin {"PENDING", "PERMIT_WAIT"})

\* C13 witness: three tasks ended, one through EXTRACTING, one through
\* FAILED, after a wait for the permit.
C13_Witness ==
  /\ max_requests = 1
  /\ Len(pc) = 3
  /\ \A i \in Tasks : pc[i] = "DONE" /\ acquired[i] = 1
  /\ \E i \in Tasks : fault[i] = "timeout"
  /\ \E i \in Tasks : ret[i].kind = "dict"

Min(a, b) == IF a <= b THEN a ELSE b

\* C14: no staggering. No request has been answered or has timed out while
\* a task has yet to take its first step; when all have taken it and no
\* permit was released yet, exactly min(N, max_requests) tasks own a permit;
\* and no task waits for a permit while one is free.
C14_NoStaggering ==
  /\ (\E i \in Tasks : pc[i] \in {"DELAY", "READING", "EXTRACTING", "FAILED", "DONE"})
       => \A j \in Tasks : pc[j] # "PENDING"
  /\ ( /\ Tasks # {}
       /\ \A j \in Tasks : pc[j] # "PENDING" /\ released[j] = 0 )
       => Cardinality(Holders) = Min(Len(pc), max_requests)
  /\ (\E i \in Tasks : pc[i] = "PERMIT_WAIT") => sem_value = 0

\* C14 witness: three tasks launched on two permits: two are in their
\* request at once and the third waits.
C14_Witness ==
  /\ max_requests = 2
  /\ Len(pc) = 3
  /\ Cardinality({i \in Tasks : pc[i] = "REQUEST"}) = 2
  /\ \E i \in Tasks : pc[i] = "PERMIT_WAIT"
  /\ \A i \in Tasks : released[i] = 0

\* scrape_all has launched its tasks.
Launched == mainpc = "gathering" \/ ScrapeAllReturned

\* The input positions that hold URL u.
Occurrences(u) == {r \in 1..Len(file.rows) : file.rows[r] = u}

\* C15: duplicates are processed independently. Once the tasks are
\* launched there is one task per occurrence of every URL, at the position
\* of the occurrence; each of them that is in or past its request acquired
\* its own permit, so k occurrences ended make k acquisitions and k requests;
\* and an assembled table has a row at each of the k positions.
C15_DuplicatesIndependent ==
  Launched =>
    /\ Len(pc) = Len(file.rows)
    /\ \A u \in URLS :
         /\ {i \in Tasks : Urls[i] = u} = Occurrences(u)
         /\ \A i \in Occurrences(u) :
              StateOf(pc[i]) \notin {"PENDING", "PERMIT_WAIT"} =>
                acquired[i] = 1
         /\ (\A i \in Occurrences(u) : pc[i] \in {"DONE", "RAISED"}) =>
              Cardinality({i \in Tasks : Urls[i] = u /\ acquired[i] = 1})
                = Cardinality(Occurrences(u))
         /\ Assembled =>
              \A i \in Occurrences(u) :
                i <= Len(df.rows) /\ df.rows[i]["url"] = Str(u)

\* C15 witness: one URL at two positions, the fetch of the first timed out
\* and the fetch of the second gave a body, from which a dict was returned.
C15_Witness ==
  /\ Len(file.rows) >= 2
  /\ file.rows[1] = file.rows[2]
  /\ Len(pc) >= 2
  /\ pc[1] = "DONE" /\ fault[1] = "timeout" /\ ret[1] = None
  /\ pc[2] = "DONE" /\ fault[2] = "none" /\ ret[2].kind = "dict"
  /\ acquired[1] = 1 /\ acquired[2] = 1

\* C16: independent result slots. A step that moves task i in its state
\* machine leaves the input file, self.df and, of every other task, the
\* state, the fetched body and the result as they are (beside task i's own
\* fields it changes the semaphore, gather's bookkeeping and stdout only);
\* a task's result is written in the step that makes it DONE and in no
\* other, and a task stays DONE; self.df is changed by load_data and then
\* once, by scrape_all when every task is DONE, into the url column beside
\* the frame of the tasks' results, and never after.
C16_IndependentSlots ==
  /\ [][\A i \in Tasks :
          StateOf(pc'[i]) # StateOf(pc[i]) =>
            /\ file' = file /\ df' = df /\ mainpc' = mainpc
            /\ \A j \in Tasks \ {i} :
                 /\ StateOf(pc'[j]) = StateOf(pc[j])
                 /\ html'[j] = html[j]
                 /\ ret'[j] = ret[j]]_vars
  /\ [][\A i \in Tasks :
          /\ ret'[i] # ret[i] => pc[i] # "DONE" /\ pc'[i] = "DONE"
          /\ pc[i] = "DONE" => pc'[i] = "DONE"]_vars
  /\ [][df' # df =>
          \/ mainpc = "constructed"
          \/ /\ mainpc = "gathering" /\ mainpc' = "assembled"
             /\ \A i \in Tasks : pc[i] = "DONE"
             /\ df' = Concat(df, DataFrame([i \in 1..Len(ret) |-> ret[i]]))]_vars

\* C16 witness: a table assembled from three tasks that ended one after
\* another, with a dict and a None among their results.
C16_Witness ==
  /\ mainpc = "saved"
  /\ Len(ret) = 3
  /\ Len(finished) = 3
  /\ \E i \in Tasks : ret[i].kind = "dict"
  /\ \E i \in Tasks : ret[i] = None

\* C17: permit conservation. The free permits and the tasks that own one
\* add up to max_requests, the free permits are between 0 and max_requests,
\* all are free once scrape_all has returned normally, and a task that
\* releases a permit is in its request with the permit it acquired.
C17_PermitConservation ==
  /\ [](/\ sem_value + Cardinality(Holders) = max_requests
        /\ sem_value \in 0..max_requests
        /\ Assembled => sem_value = max_requests /\ sem_waiters = <<>>)
  /\ [][\A i \in Tasks :
          released'[i] # released[i] =>
            /\ released'[i] = released[i] + 1
            /\ i \in Holders
            /\ acquired[i] = released[i] + 1]_vars

\* C17 witness: scrape_all returned normally from three tasks that shared
\* two permits, and both are free again.
C17_Witness ==
  /\ mainpc = "assembled"
  /\ max_requests = 2
  /\ Len(pc) = 3
  /\ sem_value = 2
  /\ \A i \in Tasks : released[i] = 1

\* The tasks other than i that own a permit, by what they acquired and
\* released or by a hand-over from release().
OtherOwners(i) ==
  {j \in Tasks \ {i} : acquired[j] > released[j] \/ pc[j] = "WOKEN"}

\* C18: extraction runs outside the permit. A task that is extracting has
\* released the permit it acquired: every permit is free or owned by
\* another task, and when a task waits for a permit all max_requests
\* permits are owned by tasks that are not extracting.
C18_ExtractionOutsidePermit ==
  \A i \in Tasks :
    pc[i] = "EXTRACTING" =>
      /\ acquired[i] = 1 /\ released[i] = 1
      /\ sem_value + Cardinality(OtherOwners(i)) = max_requests
      /\ (\E j \in Tasks : pc[j] = "PERMIT_WAIT") =>
           /\ Cardinality(OtherOwners(i)) = max_requests
           /\ \A j \in OtherOwners(i) : pc[j] # "EXTRACTING"

\* C18 witness: a task extracts while the waiter its release admitted has
\* the permit and another task still waits.
C18_Witness ==
  /\ \E i \in Tasks : pc[i] = "EXTRACTING"
  /\ \E j \in Tasks : pc[j] = "WOKEN"
  /\ \E k \in Tasks : pc[k] = "PERMIT_WAIT"

====
